---- MODULE Spec2Model ----
(***************************************************************************)
(* A model of the MetaFormer streaming CSV type-inference engine:          *)
(*   - the value conversions of series_type_conversion.py,                 *)
(*   - the per-column statistics of SeriesTypeInference.gather_type_stats, *)
(*   - DataFrameTypeInference.infer_data_types and Schema.from_inference,  *)
(*   - BatchedInferenceAndSchemaWriter (initialize / process / finalize),  *)
(*   - the driver BackgroundInferenceTask.do_work with its cache lock, the *)
(*     dataset reader's cursor and the upload that feeds the dataset.      *)
(*                                                                         *)
(* Cells are opaque tokens: the conversions are tabulated for the tokens   *)
(* of Cells by following the code of each convert_to_* function.           *)
(***************************************************************************)
EXTENDS Integers, Sequences, FiniteSets, TLC

(***************************************************************************)
(* InferenceType and the orders of series_type_constants.py                *)
(***************************************************************************)
inference_types_numeric ==
  <<"bool", "int8", "int16", "int32", "int64", "float32", "float64", "complex">>

inference_types_non_numeric ==
  <<"timedelta", "datetime", "datetime_d", "datetime_y">>

inference_types_all ==
  inference_types_numeric \o inference_types_non_numeric \o <<"category", "object">>

Range(s) == {s[i] : i \in 1..Len(s)}

InferenceType == Range(inference_types_all)

(***************************************************************************)
(* Raw CSV cells.  "-" is the token listed in na_values; the others are    *)
(* taken from the repository's tests ("42", "3.145678", "2021-01-01",      *)
(* "X") plus a boolean word.  The conversion tables below also cover a few *)
(* cells that no batch of the model holds.                                 *)
(***************************************************************************)
Cells == {"-", "yes", "42", "3.145678", "2021-01-01", "X"}

na_values == {"-"}

\* pd.NA / NaN / NaT: the null a failed conversion leaves behind
NA == "<NA>"

isna(v) == v = NA

\* DataFrameTypeInference.csv_to_dataframe, custom_na_values: a cell equal to
\* an entry of na_values becomes pd.NA
custom_na_values(val) == IF val \in na_values THEN NA ELSE val

csv_to_dataframe(rows) == [i \in 1..Len(rows) |-> custom_na_values(rows[i])]

\* Series.dropna()
dropna(series) == SelectSeq(series, LAMBDA v : ~isna(v))

\* set(series.unique())
unique(series) == Range(series)

(***************************************************************************)
(* series_type_conversion.py, one cell at a time                           *)
(***************************************************************************)
\* pd.to_numeric(errors='coerce'): the cells that parse as a real number
to_numeric(v) == IF v \in {"42", "300", "3.14", "3.145678"} THEN v ELSE NA

\* the parsed number has no fractional part (converted % 1 == 0)
no_decimals(v) == v \in {"42", "300"}

\* the integer value of a whole number
int_value(v) == CASE v = "42" -> 42 [] v = "300" -> 300 [] OTHER -> 0

\* count_significant_digits: digits left after dropping the exponent, the
\* point and the leading/trailing zeros; 0 when something else is left
count_significant_digits(v) ==
  CASE v = "42" -> 2
    [] v = "300" -> 1
    [] v = "3.14" -> 3
    [] v = "3.145678" -> 7
    [] OTHER -> 0

\* np.iinfo(numpy_dtype): width of the integer type
int_bits(pdtype) ==
  CASE pdtype = "int8" -> 8
    [] pdtype = "int16" -> 16
    [] pdtype = "int32" -> 32
    [] pdtype = "int64" -> 64

convert_to_bool(v) ==
  IF v \in {"yes", "y", "true", "1"} THEN "True"
  ELSE IF v \in {"no", "n", "false", "0"} THEN "False"
  ELSE NA

\* converted.between(np.iinfo(t).min, np.iinfo(t).max); every whole number
\* of the model is below 2^31, so Int32 and Int64 hold it
between(n, pdtype) ==
  \/ int_bits(pdtype) >= 32
  \/ /\ -(2 ^ (int_bits(pdtype) - 1)) <= n
     /\ n <= 2 ^ (int_bits(pdtype) - 1) - 1

convert_to_int(v, pdtype) ==
  LET converted == to_numeric(v)
  IN  IF isna(converted) THEN NA
      ELSE IF ~no_decimals(converted) THEN NA
      ELSE IF ~between(int_value(converted), pdtype) THEN NA
      ELSE converted

convert_to_float(v, pdtype) ==
  IF pdtype = "float32" /\ count_significant_digits(v) > 6 THEN NA
  ELSE to_numeric(v)

\* safe_complex_convert: complex(str) of a non-numeric cell
safe_complex_convert(v) == IF v \in {"1+2j", "4+5j"} THEN v ELSE NA

convert_to_complex(v) ==
  IF isna(to_numeric(v)) THEN safe_complex_convert(v) ELSE v

\* numeric cells become NaT; pd.to_timedelta parses duration expressions only
convert_to_timedelta(v) ==
  IF ~isna(to_numeric(v)) THEN NA
  ELSE IF v \in {"1 days", "2h"} THEN v ELSE NA

\* numeric cells become NaT; a cell of the shape n/n/n (after '-' -> '/') is
\* parsed with dateFormat; the rest goes to the 'mixed' fallback
convert_to_datetime(v, dateFormat) ==
  IF ~isna(to_numeric(v)) THEN NA
  ELSE IF v = "2021-01-01"
       THEN (IF dateFormat = "%Y/%m/%d" THEN v ELSE NA)
       ELSE NA

convert_type(v, inftype) ==
  CASE inftype = "bool" -> convert_to_bool(v)
    [] inftype = "timedelta" -> convert_to_timedelta(v)
    [] inftype = "datetime" -> convert_to_datetime(v, "%m/%d/%Y")
    [] inftype = "datetime_y" -> convert_to_datetime(v, "%Y/%m/%d")
    [] inftype = "datetime_d" -> convert_to_datetime(v, "%d/%m/%Y")
    [] inftype = "category" -> v
    [] inftype \in {"int8", "int16", "int32", "int64"} -> convert_to_int(v, inftype)
    [] inftype \in {"float32", "float64"} -> convert_to_float(v, inftype)
    [] inftype = "complex" -> convert_to_complex(v)

\* the cells of a series whose conversion is null: series[pd.isna(converted)]
failed(series, inftype) == SelectSeq(series, LAMBDA v : isna(convert_type(v, inftype)))

(***************************************************************************)
(* Python dict helpers: a dict is a function whose DOMAIN is its key set   *)
(***************************************************************************)
EmptyDict == [k \in {} |-> 0]

Get(d, k, default) == IF k \in DOMAIN d THEN d[k] ELSE default

Put(d, k, v) == [x \in (DOMAIN d) \cup {k} |-> IF x = k THEN v ELSE d[x]]

Pop(d, k) == [x \in (DOMAIN d) \ {k} |-> d[x]]

(***************************************************************************)
(* SeriesTypeInference.gather_type_stats                                   *)
(***************************************************************************)
\* lines 37-47: the numeric cascade; only the cells that failed a type are
\* tried on the next one
RECURSIVE numeric_cascade(_, _, _)
\* lines 43-47 with "type_stats[dtype] = (is_na).sum()" in place of "+="
numeric_step_assigns(i, numeric_s, type_stats, dtype, bad) ==
  IF numeric_s # <<>>
  THEN numeric_cascade(i + 1, bad, Put(type_stats, dtype, Len(bad)))
  ELSE numeric_cascade(i + 1, numeric_s, type_stats)

\* lines 43-47 without "numeric_s = numeric_s[is_na]": every numeric type is
\* tried on the whole series
numeric_step_whole(i, numeric_s, type_stats, dtype, bad) ==
  IF numeric_s # <<>>
  THEN numeric_cascade(i + 1, numeric_s, Put(type_stats, dtype, type_stats[dtype] + Len(bad)))
  ELSE numeric_cascade(i + 1, numeric_s, type_stats)

\* lines 43-47 for one dtype, bad being numeric_s[is_na]
numeric_step(i, numeric_s, type_stats, dtype, bad) ==
  IF numeric_s # <<>>
  THEN numeric_cascade(i + 1, bad, Put(type_stats, dtype, type_stats[dtype] + Len(bad)))
  ELSE numeric_cascade(i + 1, numeric_s, type_stats)

numeric_cascade(i, numeric_s, type_stats) ==
  IF i > Len(inference_types_numeric) THEN type_stats
  ELSE numeric_step(i, numeric_s,
                    IF inference_types_numeric[i] \in DOMAIN type_stats THEN type_stats
                    ELSE Put(type_stats, inference_types_numeric[i], 0),
                    inference_types_numeric[i],
                    failed(numeric_s, inference_types_numeric[i]))

\* lines 49-55: every non-numeric type is tried on the whole non-NA series
RECURSIVE non_numeric_stats(_, _, _)
non_numeric_stats(i, series, type_stats) ==
  IF i > Len(inference_types_non_numeric) THEN type_stats
  ELSE LET dtype == inference_types_non_numeric[i]
           non_confirming_values == Len(failed(series, dtype))
       IN  non_numeric_stats(i + 1, series,
             Put(type_stats, dtype, Get(type_stats, dtype, 0) + non_confirming_values))

\* lines 57-66 with "len(unique_values) <= self.max_category_values" in place
\* of "len(unique_values) <= max_to_add"
category_stats_no_room(series, rows_processed, type_stats, category_values, max_category_values) ==
  LET popped == Pop(type_stats, "category")
      unique_values == unique(series)
  IN  IF Cardinality(category_values) <= max_category_values
         /\ Cardinality(unique_values) <= max_category_values
      THEN IF rows_processed = 0
           THEN [type_stats |-> popped, category_values |-> category_values, raised |-> TRUE]
           ELSE [type_stats |->
                   IF max_category_values # 0
                      /\ Cardinality(unique_values) <= max_category_values
                      /\ 2 * Cardinality(unique_values) <= rows_processed
                   THEN Put(popped, "category", 0)
                   ELSE popped,
                 category_values |-> category_values \cup unique_values,
                 raised |-> FALSE]
      ELSE [type_stats |-> popped, category_values |-> category_values, raised |-> FALSE]

\* lines 57-66: the category gate.  unique_ratio = len(unique_values) /
\* rows_processed raises ZeroDivisionError when rows_processed is 0;
\* unique_ratio <= 0.5 is 2 * len(unique_values) <= rows_processed.
category_stats(series, rows_processed, type_stats, category_values, max_category_values) ==
  LET popped == Pop(type_stats, "category")
      unique_values == unique(series)
      max_to_add == max_category_values - Cardinality(category_values)
  IN  IF Cardinality(category_values) <= max_category_values
         /\ Cardinality(unique_values) <= max_to_add
      THEN IF rows_processed = 0
           THEN [type_stats |-> popped, category_values |-> category_values, raised |-> TRUE]
           ELSE [type_stats |->
                   IF max_category_values # 0
                      /\ Cardinality(unique_values) <= max_category_values
                      /\ 2 * Cardinality(unique_values) <= rows_processed
                   THEN Put(popped, "category", 0)
                   ELSE popped,
                 category_values |-> category_values \cup unique_values,
                 raised |-> FALSE]
      ELSE [type_stats |-> popped, category_values |-> category_values, raised |-> FALSE]

\* the whole call: the result, and whether it raised.  type_stats is the
\* caller's dict, updated in place, so what was done before a raise stays.
gather_type_stats(raw_series, rows_processed_before, type_stats, category_values, max_category_values) ==
  LET series == dropna(raw_series)
      rows_processed == rows_processed_before + Len(series)
      numeric == numeric_cascade(1, series, type_stats)
      both == non_numeric_stats(1, series, numeric)
  IN  category_stats(series, rows_processed, both, category_values, max_category_values)

(***************************************************************************)
(* DataFrameTypeInference, Schema and BatchedInferenceAndSchemaWriter.     *)
(* A writer record holds the schema and the inference object built on it;  *)
(* column_types and category_values are the same dict objects in both.     *)
(***************************************************************************)
columns == <<"col_1">>

\* Schema(max_categories, column_types={col: {}}): position 1, incomplete
Schema(max_categories) ==
  [max_categories  |-> max_categories,
   column_types    |-> [c \in Range(columns) |-> EmptyDict],
   category_values |-> [c \in {} |-> {}],
   position        |-> 1,
   status          |-> "incomplete"]

\* BatchedInferenceAndSchemaWriter.__init__ / DataFrameTypeInference.__init__:
\* the counters are taken from the schema, rows_processed starts at 0
BatchedInferenceAndSchemaWriter(schema) ==
  [schema |-> schema, rows_processed |-> 0]

\* DataFrameTypeInference.infer_data_types over the columns of df, in order;
\* df maps a column to its series.  A raise leaves the loop at that column.
RECURSIVE infer_columns(_, _, _, _)
\* lines 41-43 for one column, res being what gather_type_stats did
store_stats(i, df, writer, nrows, col, res) ==
  IF res.raised
  THEN [writer |-> [writer EXCEPT !.schema.column_types[col] = res.type_stats],
        raised |-> TRUE]
  ELSE infer_columns(i + 1, df,
         [writer EXCEPT !.schema.column_types[col] = res.type_stats,
                        !.schema.category_values = Put(@, col, res.category_values)],
         nrows)

infer_columns(i, df, writer, nrows) ==
  IF i > Len(columns)
  THEN [writer |-> [writer EXCEPT !.rows_processed = @ + nrows], raised |-> FALSE]
  ELSE store_stats(i, df, writer, nrows, columns[i],
         gather_type_stats(df[columns[i]], writer.rows_processed,
                           writer.schema.column_types[columns[i]],
                           Get(writer.schema.category_values, columns[i], {}),
                           writer.schema.max_categories))

infer_data_types(writer, df, nrows) == infer_columns(1, df, writer, nrows)

\* Schema.from_inference
from_inference(writer) ==
  [writer EXCEPT !.schema.position = writer.rows_processed + 1]

\* process with the write made whether or not infer_data_types raised (what
\* the no-partial-chunk property has to exclude)
after_inference_always(res) ==
  [writer |-> from_inference(res.writer), raised |-> FALSE]

\* BatchedInferenceAndSchemaWriter.process up to the write: the writer after
\* the call and whether the call raised (then nothing is written)
after_inference(res) ==
  IF res.raised THEN res
  ELSE [writer |-> from_inference(res.writer), raised |-> FALSE]

process(writer, dataset) ==
  after_inference(
    infer_data_types(writer, [c \in Range(columns) |-> csv_to_dataframe(dataset)],
                     Len(dataset)))

\* BatchedInferenceAndSchemaWriter.finalize, the schema it writes
finalize(writer) == [writer EXCEPT !.schema.status = "complete"]

(***************************************************************************)
(* The read path: SeriesTypeInference.apply and                            *)
(* DataFrameTypeInference.load_data_frame_custom                           *)
(***************************************************************************)
\* the columns of the frame that is read back
column_names == <<"col_1", "col_2">>

\* "exceptions = None": no exceptions series yet; otherwise a dict per row
NoExceptions == [is_none |-> TRUE, rows |-> <<>>]

\* an apply that stores {name: value} alone for a failed cell, dropping the
\* entries of the columns converted before
apply_overwrites(name, data, dtype, exc) ==
  IF dtype = "object"
  THEN [converted |-> data, exceptions |-> exc]
  ELSE LET converted == [i \in 1..Len(data) |-> convert_type(data[i], dtype)]
           rows == IF exc.is_none THEN [i \in 1..Len(data) |-> EmptyDict]
                   ELSE exc.rows
       IN  [converted |-> converted,
            exceptions |->
              [is_none |-> FALSE,
               rows |-> [i \in 1..Len(data) |->
                           IF isna(converted[i]) /\ ~isna(data[i])
                           THEN Put(EmptyDict, name, data[i])
                           ELSE rows[i]]]]

\* SeriesTypeInference.apply for the series of column name.  The series read
\* from the CSV text has dtype object, so line 107 returns it untouched,
\* with the exceptions as they were passed in, exactly when dtype is object.
apply(name, data, dtype, exc) ==
  IF dtype = "object"
  THEN [converted |-> data, exceptions |-> exc]
  ELSE LET converted == [i \in 1..Len(data) |-> convert_type(data[i], dtype)]
           rows == IF exc.is_none THEN [i \in 1..Len(data) |-> EmptyDict]
                   ELSE exc.rows
       IN  [converted |-> converted,
            exceptions |->
              [is_none |-> FALSE,
               rows |-> [i \in 1..Len(data) |->
                           IF isna(converted[i]) /\ ~isna(data[i])
                           THEN Put(rows[i], name, data[i])
                           ELSE rows[i]]]]

\* load_data_frame_custom, lines 138-146: the columns in order, each handed
\* the exceptions the one before returned
RECURSIVE load_columns(_, _, _, _)
load_columns(i, df, types, exc) ==
  IF i > Len(column_names)
  THEN [df_subset |-> df, exceptions |-> exc]
  ELSE LET col == column_names[i]
           res == apply(col, df[col], types[col], exc)
       IN  load_columns(i + 1, [df EXCEPT ![col] = res.converted], types,
                        res.exceptions)

\* load_data_frame_custom: the frame of the CSV rows (line 134), then the
\* columns
load_data_frame_custom(rows, types) ==
  load_columns(1,
               [c \in Range(column_names) |->
                  [i \in 1..Len(rows) |-> custom_na_values(rows[i][c])]],
               types, NoExceptions)

(***************************************************************************)
(* PostgresqlDatasetWriter                                                 *)
(***************************************************************************)
\* complete_data.rfind('\n'), 1-based; 0 when there is no newline
RECURSIVE rfind_newline(_, _)
rfind_newline(data, i) ==
  IF i = 0 THEN 0
  ELSE IF data[i] = "\n" THEN i ELSE rfind_newline(data, i - 1)

\* cursor.copy_from(file, table, columns=('data',), sep='\1'): COPY FROM STDIN
\* in text format.  A newline ends a row; a backslash quotes the character
\* after it (a quoted newline is data, a quoted letter or backslash stands
\* for itself); what is left at the end of the input is a row.
RECURSIVE copy_from(_, _, _, _)
copy_from(data, i, row, rows) ==
  IF i > Len(data)
  THEN IF row = <<>> THEN rows ELSE Append(rows, row)
  ELSE IF data[i] = "\\" /\ i < Len(data)
       THEN copy_from(data, i + 2, Append(row, data[i + 1]), rows)
       ELSE IF data[i] = "\n"
            THEN copy_from(data, i + 1, <<>>, Append(rows, row))
            ELSE copy_from(data, i + 1, Append(row, data[i]), rows)

\* PostgresqlDatasetWriter.write(csv_rows): the new partial_data and the rows
\* the COPY appends to the table
write(partial, chunk) ==
  IF chunk = <<>>
  THEN [partial_data |-> partial, copied |-> <<>>]
  ELSE LET complete_data == partial \o chunk
           last_newline == rfind_newline(complete_data, Len(complete_data))
       IN  IF last_newline = 0
           THEN [partial_data |-> partial \o chunk, copied |-> <<>>]
           ELSE [partial_data |-> SubSeq(complete_data, last_newline + 1,
                                         Len(complete_data)),
                 copied |-> copy_from(SubSeq(complete_data, 1, last_newline),
                                      1, <<>>, <<>>)]

(***************************************************************************)
(* Bounds of the model                                                     *)
(***************************************************************************)
\* rows of one batch handed to process
MaxBatch == 2
\* rows handed to process over one behaviour of the inference specification
MaxTotal == 3
\* largest max_categories a schema is created with
MaxCat == 2
\* rows the upload writes to the dataset
MaxRows == 2
\* do_work invocations
MaxRuns == 2
\* rows per repository read (chunk_size=1000 in do_work, scaled down)
ChunkSize == 1

\* rows of the frame that is read back
MaxReadRows == 2
\* characters of the CSV text handed to the dataset writer
MaxText == 3
\* rows of the table the dataset reader reads
MaxStored == 3
\* largest chunk_size of a read
MaxChunk == 2
\* schedule_expiry_event calls (each starts a timer)
MaxTimers == 2
\* cancel_timer calls
MaxCancels == 1

\* "while back_off < 60"
BackoffCap == 60

RECURSIVE SeqsUpTo(_, _)
SeqsUpTo(S, n) ==
  IF n = 0 THEN {<<>>}
  ELSE LET shorter == SeqsUpTo(S, n - 1)
       IN  shorter \cup {Append(q, x) : q \in {r \in shorter : Len(r) = n - 1}, x \in S}

\* the batches of the inference specifications
Batches == SeqsUpTo(Cells, MaxBatch)

\* the cells and the batches of the two-batch comparison
BatchCells == {"-", "X", "42"}

BatchPairs == SeqsUpTo(BatchCells, MaxBatch)

\* the cells the upload writes
UploadCells == {"42", "-"}

\* the cells and the resolved types of the frame that is read back
ReadCells == {"-", "yes", "42", "X"}

ReadTypes == {"object", "category", "bool", "int8", "float64"}

\* the rows of a table that is read: a blank line and two lines of a letter
RowStrings == {<<>>, <<"a">>, <<"b">>}

\* the characters of an uploaded text: a letter, the backslash, the newline
Chars == {"a", "\\", "\n"}

Workers == {"w1", "w2"}

\* the request threads that issue or refresh a token or log the user out
Callers == {"c1", "c2"}

Users == {"alice", "bob"}

\* the user do_work runs for
ForUser == "alice"

\* Python's None, as a schema argument
None == [status |-> "None"]

\* an optional row number: <<>> is None, <<n>> is n
NoRow == <<>>

VARIABLES
  \* ---- process calls on one writer (SpecInfer) ----
  wr,              \* the BatchedInferenceAndSchemaWriter and its schema
  raised,          \* the last process call raised
  seen,            \* how often each cell was in a batch of a call that returned
  \* ---- do_work (Spec) ----
  cache,           \* the cache holds lock_{for_user}_{dataset_name}
  persisted,       \* dataset_paths.schema_data of the dataset
  upload_status,   \* dataset_paths.upload_status
  table,           \* the dataset table: row id i holds table[i]
  sessions,        \* FileSession.status of each user's session for the dataset name
  pc,              \* where each do_work invocation stands
  schema_str,      \* its schema_str argument
  lock_acquired,   \* what dataset_lock yielded
  inference,       \* its BatchedInferenceAndSchemaWriter
  upload_complete, \* "true", or "qs": the ready_list query, not run yet
  back_off,
  start_row,
  cursor,          \* rows the reader's cursor has fetched and not yet returned
  dataset,         \* the chunk read last
  runs,            \* do_work invocations started
  \* ---- two batches on one starting schema (SpecBatch) ----
  batchA,
  batchB,
  split,           \* process(batchA); process(batchB)
  swapped,         \* process(batchB); process(batchA)
  joined,          \* process(batchA ++ batchB)
  \* ---- the read path (SpecRead) ----
  csv_rows,        \* the rows dataset_reader.read returned, a cell per column
  preferred_types, \* the resolved type of each column
  df_subset,       \* the typed frame load_data_frame_custom returns
  exceptions,      \* the exceptions it returns
  loaded,          \* load_data_frame_custom has returned
  \* ---- the dataset writer (SpecWriter) ----
  text,            \* the CSV text of the upload, a character per element
  pending,         \* the part not yet handed to write
  partial_data,    \* PostgresqlDatasetWriter.partial_data
  stored,          \* the data column of the table, by id
  released,        \* __exit__ has run
  \* ---- the dataset reader (SpecReader) ----
  dataset_rows,    \* the data column of the table that is read, by id
  first_row,       \* start_row of the first read
  chunk_size,      \* chunk_size of every read
  reader_cursor,   \* PostgresqlDatasetReader.cursor: the rows not yet fetched
  data_contents,   \* what the reads returned, in order
  \* ---- token expiry (SpecToken), for one user_id ----
  timer_phase,     \* each threading.Timer: none, waiting, cancelled, firing, sent, done
  timers,          \* timers.get(user_id): 0 when absent, else the timer
  created,         \* timers started so far; the last is the most recent
  caller_pc,       \* where each request thread stands
  old_timer,       \* its old_timer (schedule_expiry_event) or timer (cancel_timer)
  new_timer,       \* its new_timer
  cancels,         \* cancel_timer calls made
  signals          \* the timers that sent session_expired, in order

inferVars == <<wr, raised, seen>>

repoVars == <<cache, persisted, upload_status, table, sessions>>

workVars == <<pc, schema_str, lock_acquired, inference, upload_complete,
              back_off, start_row, cursor, dataset, runs>>

batchVars == <<batchA, batchB, split, swapped, joined>>

readVars == <<csv_rows, preferred_types, df_subset, exceptions, loaded>>

writerVars == <<text, pending, partial_data, stored, released>>

readerVars == <<dataset_rows, first_row, chunk_size, reader_cursor, data_contents>>

tokenVars == <<timer_phase, timers, created, caller_pc, old_timer, new_timer,
               cancels, signals>>

otherVars == <<readVars, writerVars, readerVars, tokenVars>>

vars == <<inferVars, repoVars, workVars, batchVars, otherVars>>

(***************************************************************************)
(* Initial values of each group                                            *)
(***************************************************************************)
InferIdle ==
  /\ wr = BatchedInferenceAndSchemaWriter(Schema(MaxCat))
  /\ raised = FALSE
  /\ seen = [v \in Cells |-> 0]

\* the dataset exists (get_dataset_writer created it with the upload's
\* schema), its table is empty and the upload is under way
RepoInit ==
  /\ cache = FALSE
  /\ persisted = Schema(MaxCat)
  /\ upload_status = "Initiated"
  /\ table = <<>>
  /\ sessions = [u \in Users |-> IF u = ForUser THEN "Initiated" ELSE "None"]

\* one run of process calls: the writer, whether a call raised, calls made
NoCalls(max_categories) ==
  [writer |-> BatchedInferenceAndSchemaWriter(Schema(max_categories)),
   raised |-> FALSE, calls |-> 0]

BatchIdle ==
  /\ batchA = <<>>
  /\ batchB = <<>>
  /\ split = NoCalls(MaxCat)
  /\ swapped = NoCalls(MaxCat)
  /\ joined = NoCalls(MaxCat)

WorkInit ==
  /\ pc = [w \in Workers |-> "idle"]
  /\ schema_str = [w \in Workers |-> None]
  /\ lock_acquired = [w \in Workers |-> FALSE]
  /\ inference = [w \in Workers |-> BatchedInferenceAndSchemaWriter(Schema(MaxCat))]
  /\ upload_complete = [w \in Workers |-> "qs"]
  /\ back_off = [w \in Workers |-> 1]
  /\ start_row = [w \in Workers |-> NoRow]
  /\ cursor = [w \in Workers |-> <<>>]
  /\ dataset = [w \in Workers |-> <<>>]
  /\ runs = 0

\* nothing has been read back
ReadIdle ==
  /\ csv_rows = <<>>
  /\ preferred_types = [c \in Range(column_names) |-> "object"]
  /\ df_subset = [c \in Range(column_names) |-> <<>>]
  /\ exceptions = NoExceptions
  /\ loaded = FALSE

\* no writer has been acquired
WriterIdle ==
  /\ text = <<>>
  /\ pending = <<>>
  /\ partial_data = <<>>
  /\ stored = <<>>
  /\ released = FALSE

\* no reader has been acquired
ReaderIdle ==
  /\ dataset_rows = <<>>
  /\ first_row = 1
  /\ chunk_size = 1
  /\ reader_cursor = <<>>
  /\ data_contents = <<>>

\* token_issuance as imported: timers = {}, no timer, no request
TokenInit ==
  /\ timer_phase = [t \in 1..MaxTimers |-> "none"]
  /\ timers = 0
  /\ created = 0
  /\ caller_pc = [c \in Callers |-> "idle"]
  /\ old_timer = [c \in Callers |-> 0]
  /\ new_timer = [c \in Callers |-> 0]
  /\ cancels = 0
  /\ signals = <<>>

OtherIdle == ReadIdle /\ WriterIdle /\ ReaderIdle /\ TokenInit

(***************************************************************************)
(* SpecInfer: process calls on a writer, and a new writer on its schema    *)
(***************************************************************************)
\* rows fed to the process calls that returned
TotalFed == LET RECURSIVE Sum(_)
                Sum(S) == IF S = {} THEN 0
                          ELSE LET v == CHOOSE x \in S : TRUE
                               IN  seen[v] + Sum(S \ {v})
            IN  Sum(Cells)

InitInfer ==
  /\ \E mc \in 1..MaxCat : wr = BatchedInferenceAndSchemaWriter(Schema(mc))
  /\ raised = FALSE
  /\ seen = [v \in Cells |-> 0]
  /\ RepoInit
  /\ WorkInit
  /\ BatchIdle
  /\ OtherIdle

\* BatchedInferenceAndSchemaWriter.process(dataset), the repository write
\* left out (the driver specification has it)
Process(batch) ==
  /\ TotalFed + Len(batch) <= MaxTotal
  /\ \E res \in {process(wr, batch)} :
         /\ wr' = res.writer
         /\ raised' = res.raised
         /\ seen' = IF res.raised THEN seen
                    ELSE [v \in Cells |->
                            seen[v] + Cardinality({i \in 1..Len(batch) : batch[i] = v})]
  /\ UNCHANGED <<repoVars, workVars, batchVars, otherVars>>

\* a later run builds a new BatchedInferenceAndSchemaWriter on the schema
\* the last one left
NewWriter ==
  /\ wr.rows_processed > 0
  /\ wr' = BatchedInferenceAndSchemaWriter(wr.schema)
  /\ UNCHANGED <<raised, seen, repoVars, workVars, batchVars, otherVars>>

NextInfer == (\E batch \in Batches : Process(batch)) \/ NewWriter

SpecInfer == InitInfer /\ [][NextInfer]_vars

(***************************************************************************)
(* SpecBatch: two batches handed to process on the same starting schema,   *)
(* in both orders and as one batch                                         *)
(***************************************************************************)
InitBatch ==
  /\ batchA \in BatchPairs
  /\ batchB \in BatchPairs
  /\ \E mc \in 1..MaxCat :
        /\ split = NoCalls(mc)
        /\ swapped = NoCalls(mc)
        /\ joined = NoCalls(mc)
  /\ InferIdle
  /\ RepoInit
  /\ WorkInit
  /\ OtherIdle

\* one more process call in a run
Call(run, batch) ==
  LET res == process(run.writer, batch)
  IN  [writer |-> res.writer, raised |-> res.raised, calls |-> run.calls + 1]

ProcessSplit ==
  /\ split.calls < 2
  /\ ~split.raised
  /\ split' = Call(split, IF split.calls = 0 THEN batchA ELSE batchB)
  /\ UNCHANGED <<batchA, batchB, swapped, joined, inferVars, repoVars, workVars, otherVars>>

ProcessSwapped ==
  /\ swapped.calls < 2
  /\ ~swapped.raised
  /\ swapped' = Call(swapped, IF swapped.calls = 0 THEN batchB ELSE batchA)
  /\ UNCHANGED <<batchA, batchB, split, joined, inferVars, repoVars, workVars, otherVars>>

ProcessJoined ==
  /\ joined.calls < 1
  /\ joined' = Call(joined, batchA \o batchB)
  /\ UNCHANGED <<batchA, batchB, split, swapped, inferVars, repoVars, workVars, otherVars>>

NextBatch == ProcessSplit \/ ProcessSwapped \/ ProcessJoined

SpecBatch == InitBatch /\ [][NextBatch]_vars

(***************************************************************************)
(* Spec: BackgroundInferenceTask.do_work, run by the task workers, and the *)
(* upload (api.upload_and_process_file) that fills the dataset meanwhile.  *)
(* Every access to the cache or to a database is one step; the locals of   *)
(* an invocation that has returned are forgotten.                          *)
(***************************************************************************)
Init == InferIdle /\ RepoInit /\ WorkInit /\ BatchIdle /\ OtherIdle

\* ---- the upload ----
\* writer.write(data): the complete lines of a chunk are committed
Write(v) ==
  /\ upload_status = "Initiated"
  /\ Len(table) < MaxRows
  /\ table' = Append(table, v)
  /\ UNCHANGED <<cache, persisted, upload_status, sessions, inferVars, workVars, batchVars, otherVars>>

\* UPDATE dataset_paths SET upload_status = 'Ready'
SetUploadReady ==
  /\ upload_status = "Initiated"
  /\ upload_status' = "Ready"
  /\ UNCHANGED <<cache, persisted, table, sessions, inferVars, workVars, batchVars, otherVars>>

\* session.status = 'Ready'; session.save()
SaveSession ==
  /\ upload_status = "Ready"
  /\ sessions[ForUser] = "Initiated"
  /\ sessions' = [sessions EXCEPT ![ForUser] = "Ready"]
  /\ UNCHANGED <<cache, persisted, upload_status, table, inferVars, workVars, batchVars, otherVars>>

\* ---- do_work ----
\* the locals of worker w once do_work has returned or raised
Returned(w) ==
  /\ schema_str' = [schema_str EXCEPT ![w] = None]
  /\ lock_acquired' = [lock_acquired EXCEPT ![w] = FALSE]
  /\ inference' = [inference EXCEPT ![w] = BatchedInferenceAndSchemaWriter(Schema(MaxCat))]
  /\ upload_complete' = [upload_complete EXCEPT ![w] = "qs"]
  /\ back_off' = [back_off EXCEPT ![w] = 1]
  /\ start_row' = [start_row EXCEPT ![w] = NoRow]
  /\ cursor' = [cursor EXCEPT ![w] = <<>>]
  /\ dataset' = [dataset EXCEPT ![w] = <<>>]

\* process_file_task is delivered to a worker (the workers are alike: the
\* second takes a task only while the first is busy).  The caller passes no
\* schema, a new schema, or the schema it read when it asked for the task.
Invoke(w) ==
  /\ pc[w] = "idle"
  /\ w = "w1" \/ pc["w1"] # "idle"
  /\ runs < MaxRuns
  /\ runs' = runs + 1
  /\ \E s \in {None, Schema(persisted.max_categories), persisted} :
        schema_str' = [schema_str EXCEPT ![w] = s]
  /\ pc' = [pc EXCEPT ![w] = "lock_get"]
  /\ UNCHANGED <<lock_acquired, inference, upload_complete, back_off, start_row,
                 cursor, dataset, repoVars, inferVars, batchVars, otherVars>>

\* a dataset_lock that lets the caller in whether or not the key is set (what
\* the ConcurrentRun property has to exclude)
LockGet_always(w) ==
  /\ pc[w] = "lock_get"
  /\ pc' = [pc EXCEPT ![w] = "lock_set"]
  /\ UNCHANGED <<schema_str, lock_acquired, inference, upload_complete,
                 back_off, start_row, cursor, dataset>>
  /\ UNCHANGED <<runs, repoVars, inferVars, batchVars, otherVars>>

\* dataset_lock, line 22: lock_acquired = cache.get(lock_key); when the key
\* is set the caller is yielded False and returns (lines 29-30, 41-44)
LockGet(w) ==
  /\ pc[w] = "lock_get"
  /\ IF cache
     THEN /\ pc' = [pc EXCEPT ![w] = "idle"]
          /\ Returned(w)
     ELSE /\ pc' = [pc EXCEPT ![w] = "lock_set"]
          /\ UNCHANGED <<schema_str, lock_acquired, inference, upload_complete,
                         back_off, start_row, cursor, dataset>>
  /\ UNCHANGED <<runs, repoVars, inferVars, batchVars, otherVars>>

\* dataset_lock, lines 24-26: cache.set(lock_key, "true"); yield True
LockSet(w) ==
  /\ pc[w] = "lock_set"
  /\ cache' = TRUE
  /\ lock_acquired' = [lock_acquired EXCEPT ![w] = TRUE]
  /\ pc' = [pc EXCEPT ![w] = "schema"]
  /\ UNCHANGED <<persisted, upload_status, table, sessions, schema_str,
                 inference, upload_complete, back_off, start_row,
                 cursor, dataset, runs, inferVars, batchVars, otherVars>>

\* lines 48-56: write the schema passed in, or read the stored one; return
\* when it is complete
LoadSchema(w) ==
  /\ pc[w] = "schema"
  /\ \E schema \in {IF schema_str[w] # None THEN schema_str[w] ELSE persisted} :
        /\ persisted' = IF schema_str[w] # None THEN schema ELSE persisted
        /\ inference' = [inference EXCEPT ![w] = [@ EXCEPT !.schema = schema]]
        /\ pc' = [pc EXCEPT ![w] = IF schema.status = "complete" THEN "release"
                                   ELSE "status"]
  /\ UNCHANGED <<cache, upload_status, table, sessions, schema_str, lock_acquired,
                 upload_complete, back_off, start_row, cursor, dataset, runs,
                 inferVars, batchVars, otherVars>>

\* lines 91-94: upload_complete = upload_complete or ready_list; ready_list
\* is a query that has not run yet
OrReadyList(upload_complete_w) == IF upload_complete_w = "true" THEN "true" ELSE "qs"

\* lines 59-94: read upload_status, build the writer and the reader, enter
\* the loop (back_off = 1 < 60)
QueryStatus(w) ==
  /\ pc[w] = "status"
  /\ upload_complete' = [upload_complete EXCEPT ![w] =
                           OrReadyList(IF upload_status = "Ready" THEN "true" ELSE "false")]
  /\ inference' = [inference EXCEPT ![w] = BatchedInferenceAndSchemaWriter(@.schema)]
  /\ back_off' = [back_off EXCEPT ![w] = 1]
  /\ start_row' = [start_row EXCEPT ![w] = <<inference[w].schema.position>>]
  /\ pc' = [pc EXCEPT ![w] = "read"]
  /\ UNCHANGED <<schema_str, lock_acquired, cursor, dataset, runs, repoVars, inferVars, batchVars, otherVars>>

\* PostgresqlDatasetReader.read, lines 97-99: with a start_row the cursor
\* runs the query and holds its whole result; fetchmany takes the next chunk
Take(s, n) == SubSeq(s, 1, IF Len(s) < n THEN Len(s) ELSE n)

Drop(s, n) == SubSeq(s, (IF Len(s) < n THEN Len(s) ELSE n) + 1, Len(s))

Read(w) ==
  /\ pc[w] = "read"
  /\ \E results \in {IF start_row[w] # NoRow
                     THEN SubSeq(table, start_row[w][1], Len(table))
                     ELSE cursor[w]} :
        /\ dataset' = [dataset EXCEPT ![w] = Take(results, ChunkSize)]
        /\ cursor' = [cursor EXCEPT ![w] = Drop(results, ChunkSize)]
        /\ pc' = [pc EXCEPT ![w] = IF results = <<>> THEN "no_data" ELSE "process"]
  /\ start_row' = [start_row EXCEPT ![w] = NoRow]
  /\ UNCHANGED <<schema_str, lock_acquired, inference, upload_complete, back_off,
                 runs, repoVars, inferVars, batchVars, otherVars>>

\* "if upload_complete": True from upload_status, or the ready_list query
\* (FileSession rows of that dataset name with status Ready) evaluated now
UploadComplete(w) ==
  \/ upload_complete[w] = "true"
  \/ upload_complete[w] = "qs" /\ \E u \in Users : sessions[u] = "Ready"

\* lines 100-105: no data; finalize and return, or double the back-off
NoData(w) ==
  /\ pc[w] = "no_data"
  /\ IF UploadComplete(w)
     THEN /\ inference' = [inference EXCEPT ![w] = finalize(@)]
          /\ persisted' = finalize(inference[w]).schema
          /\ pc' = [pc EXCEPT ![w] = "release"]
          /\ UNCHANGED back_off
     ELSE /\ back_off' = [back_off EXCEPT ![w] = @ * 2]
          /\ pc' = [pc EXCEPT ![w] = "sleep"]
          /\ UNCHANGED <<inference, persisted>>
  /\ UNCHANGED <<cache, upload_status, table, sessions, schema_str, lock_acquired,
                 upload_complete, start_row, cursor, dataset, runs, inferVars, batchVars, otherVars>>

\* a driver that processes a chunk and goes on to the next read without
\* writing the schema (what the cadence property has to exclude)
ProcessChunk_no_write(w) ==
  /\ pc[w] = "process"
  /\ \E res \in {process(inference[w], dataset[w])} :
        /\ inference' = [inference EXCEPT ![w] = res.writer]
        /\ pc' = [pc EXCEPT ![w] = IF res.raised THEN "release" ELSE "read"]
        /\ back_off' = [back_off EXCEPT ![w] = IF res.raised THEN @ ELSE 1]
  /\ UNCHANGED <<persisted, cache, upload_status, table, sessions, schema_str,
                 lock_acquired, upload_complete, start_row, cursor, dataset, runs,
                 inferVars, batchVars, otherVars>>

\* lines 106-110: inference.process(dataset) and the schema write; an
\* exception is logged and raised again (lines 114-116)
ProcessChunk(w) ==
  /\ pc[w] = "process"
  /\ \E res \in {process(inference[w], dataset[w])} :
        /\ inference' = [inference EXCEPT ![w] = res.writer]
        /\ persisted' = IF res.raised THEN persisted ELSE res.writer.schema
        /\ pc' = [pc EXCEPT ![w] = IF res.raised THEN "release" ELSE "read"]
        /\ back_off' = [back_off EXCEPT ![w] = IF res.raised THEN @ ELSE 1]
  /\ UNCHANGED <<cache, upload_status, table, sessions, schema_str, lock_acquired,
                 upload_complete, start_row, cursor, dataset, runs, inferVars, batchVars, otherVars>>

\* line 112, then lines 91-94: time.sleep(back_off) and the loop test
Sleep(w) ==
  /\ pc[w] = "sleep"
  /\ IF back_off[w] < BackoffCap
     THEN /\ upload_complete' = [upload_complete EXCEPT ![w] = OrReadyList(@)]
          /\ pc' = [pc EXCEPT ![w] = "read"]
     ELSE /\ pc' = [pc EXCEPT ![w] = "release"]
          /\ UNCHANGED upload_complete
  /\ UNCHANGED <<schema_str, lock_acquired, inference, back_off, start_row, cursor,
                 dataset, runs, repoVars, inferVars, batchVars, otherVars>>

\* a dataset_lock without the finally clause: the with block is left and the
\* key stays
Release_keeps(w) ==
  /\ pc[w] = "release"
  /\ pc' = [pc EXCEPT ![w] = "idle"]
  /\ Returned(w)
  /\ UNCHANGED <<cache, persisted, upload_status, table, sessions, runs, inferVars,
                 batchVars, otherVars>>

\* dataset_lock, line 28: cache.delete(lock_key) as the with block is left
Release(w) ==
  /\ pc[w] = "release"
  /\ cache' = FALSE
  /\ pc' = [pc EXCEPT ![w] = "idle"]
  /\ Returned(w)
  /\ UNCHANGED <<persisted, upload_status, table, sessions, runs, inferVars, batchVars, otherVars>>

Upload ==
  \/ \E v \in UploadCells : Write(v)
  \/ SetUploadReady
  \/ SaveSession

DoWork(w) ==
  \/ Invoke(w)
  \/ LockGet(w)
  \/ LockSet(w)
  \/ LoadSchema(w)
  \/ QueryStatus(w)
  \/ Read(w)
  \/ NoData(w)
  \/ ProcessChunk(w)
  \/ Sleep(w)
  \/ Release(w)

Next == Upload \/ \E w \in Workers : DoWork(w)

Spec == Init /\ [][Next]_vars

\* SpecSeq: the invocations follow one another on a single worker
NextSeq == Upload \/ DoWork("w1")

SpecSeq == Init /\ [][NextSeq]_vars

\* SpecOther: SpecSeq, and another user uploads a file of the same name
\* into a database of their own (api.upload_and_process_file run for that
\* user: only the FileSession table is shared)
\* FileSession.objects.create(status='Initiated', user=user, dataset_name=file_name)
OtherCreateSession ==
  /\ \E u \in Users \ {ForUser} :
       /\ sessions[u] = "None"
       /\ sessions' = [sessions EXCEPT ![u] = "Initiated"]
  /\ UNCHANGED <<cache, persisted, upload_status, table, inferVars, workVars, batchVars, otherVars>>

\* session.status = 'Ready'; session.save() of the other user's upload
OtherSaveSession ==
  /\ \E u \in Users \ {ForUser} :
       /\ sessions[u] = "Initiated"
       /\ sessions' = [sessions EXCEPT ![u] = "Ready"]
  /\ UNCHANGED <<cache, persisted, upload_status, table, inferVars, workVars, batchVars, otherVars>>

NextOther == Upload \/ DoWork("w1") \/ OtherCreateSession \/ OtherSaveSession

SpecOther == Init /\ [][NextOther]_vars

\* SpecTwo: two workers on a dataset whose rows the upload has written
\* already; the upload may still be marked Ready while they run
InitTwo ==
  /\ InferIdle /\ WorkInit /\ BatchIdle /\ OtherIdle
  /\ cache = FALSE
  /\ persisted = Schema(MaxCat)
  /\ upload_status = "Initiated"
  /\ table \in SeqsUpTo(UploadCells, MaxRows)
  /\ sessions = [u \in Users |-> IF u = ForUser THEN "Initiated" ELSE "None"]

NextTwo == SetUploadReady \/ SaveSession \/ \E w \in Workers : DoWork(w)

SpecTwo == InitTwo /\ [][NextTwo]_vars

\* ---- cancellation ----
\* The task of worker w is cancelled while it is inside the with block of
\* do_work.  Inside inference.process the inference has been updated as far
\* as infer_data_types got and nothing of the chunk has been written.  Either
\* the exception unwinds the with block (the lock is released), or the worker
\* process is killed (the lock key stays).
Cancel(w) ==
  /\ pc[w] \in {"schema", "status", "read", "no_data", "process", "sleep"}
  /\ \/ /\ pc' = [pc EXCEPT ![w] = "release"]
        /\ inference' = [inference EXCEPT ![w] =
               IF pc[w] = "process"
               THEN infer_data_types(@, [c \in Range(columns) |->
                                           csv_to_dataframe(dataset[w])],
                                     Len(dataset[w])).writer
               ELSE @]
        /\ UNCHANGED <<schema_str, lock_acquired, upload_complete, back_off,
                       start_row, cursor, dataset>>
     \/ /\ pc' = [pc EXCEPT ![w] = "idle"]
        /\ Returned(w)
  /\ UNCHANGED <<runs, repoVars, inferVars, batchVars, otherVars>>

\* SpecCancel: the invocations follow one another and may be cancelled
NextCancel == NextSeq \/ Cancel("w1")

SpecCancel == Init /\ [][NextCancel]_vars

(***************************************************************************)
(* SpecRead: load_data_frame_custom on the rows of a read                  *)
(***************************************************************************)
\* read_csv_subset read at least one row (pd.read_csv raises on an empty text)
InitRead ==
  /\ csv_rows \in SeqsUpTo([Range(column_names) -> ReadCells], MaxReadRows) \ {<<>>}
  /\ preferred_types \in [Range(column_names) -> ReadTypes]
  /\ df_subset = [c \in Range(column_names) |-> <<>>]
  /\ exceptions = NoExceptions
  /\ loaded = FALSE
  /\ InferIdle /\ RepoInit /\ WorkInit /\ BatchIdle /\ WriterIdle /\ ReaderIdle
  /\ TokenInit

LoadDataFrameCustom ==
  /\ ~loaded
  /\ \E res \in {load_data_frame_custom(csv_rows, preferred_types)} :
        /\ df_subset' = res.df_subset
        /\ exceptions' = res.exceptions
  /\ loaded' = TRUE
  /\ UNCHANGED <<csv_rows, preferred_types, inferVars, repoVars, workVars, batchVars,
                 writerVars, readerVars, tokenVars>>

NextRead == LoadDataFrameCustom

SpecRead == InitRead /\ [][NextRead]_vars

(***************************************************************************)
(* SpecWriter: an upload hands its text to the dataset writer in chunks    *)
(* and leaves the with block                                               *)
(***************************************************************************)
InitWriter ==
  /\ text \in SeqsUpTo(Chars, MaxText)
  /\ pending = text
  /\ partial_data = <<>>
  /\ stored = <<>>
  /\ released = FALSE
  /\ InferIdle /\ RepoInit /\ WorkInit /\ BatchIdle /\ ReadIdle /\ ReaderIdle
  /\ TokenInit

\* writer.write(data) for the next chunk of the file
WriteChunk ==
  /\ ~released
  /\ \E n \in 1..Len(pending) :
        \E res \in {write(partial_data, SubSeq(pending, 1, n))} :
          /\ partial_data' = res.partial_data
          /\ stored' = stored \o res.copied
          /\ pending' = SubSeq(pending, n + 1, Len(pending))
  /\ UNCHANGED <<text, released, inferVars, repoVars, workVars, batchVars, readVars,
                 readerVars, tokenVars>>

\* __exit__, lines 58-63: a partial line left over is written with a newline
WriterExit ==
  /\ ~released
  /\ pending = <<>>
  /\ \E res \in {IF partial_data # <<>> THEN write(partial_data, <<"\n">>)
                  ELSE [partial_data |-> partial_data, copied |-> <<>>]} :
        /\ partial_data' = res.partial_data
        /\ stored' = stored \o res.copied
  /\ released' = TRUE
  /\ UNCHANGED <<text, pending, inferVars, repoVars, workVars, batchVars, readVars,
                 readerVars, tokenVars>>

NextWriter == WriteChunk \/ WriterExit

SpecWriter == InitWriter /\ [][NextWriter]_vars

(***************************************************************************)
(* SpecReader: PostgresqlDatasetReader.read from a start row, then for the *)
(* next chunks, on a table that does not change meanwhile                  *)
(***************************************************************************)
\* '\n'.join(rows), a character per element
RECURSIVE join_rows(_)
join_rows(rows) ==
  IF rows = <<>> THEN <<>>
  ELSE IF Len(rows) = 1 THEN rows[1]
       ELSE rows[1] \o <<"\n">> \o join_rows(Tail(rows))

\* "data_contents = None"
NoData_contents == [is_none |-> TRUE, data |-> <<>>]

\* a read whose fetch leaves the cursor where it was
read_again(cur, size) ==
  LET results == Take(cur, size)
  IN  [cursor |-> cur,
       data_contents |-> IF results # <<>>
                         THEN [is_none |-> FALSE, data |-> join_rows(results)]
                         ELSE NoData_contents]

\* read, lines 37-48: fetchmany(size=chunk_size) on the cursor, the rows
\* joined with newlines, None when nothing was fetched
read(cur, size) ==
  LET results == Take(cur, size)
  IN  [cursor |-> Drop(cur, size),
       data_contents |-> IF results # <<>>
                         THEN [is_none |-> FALSE, data |-> join_rows(results)]
                         ELSE NoData_contents]

\* _initialize_cursor: SELECT * FROM table WHERE id >= start_row ORDER BY id
initialize_cursor(rows, from_row) ==
  IF from_row > Len(rows) THEN <<>> ELSE SubSeq(rows, from_row, Len(rows))

InitReader ==
  /\ dataset_rows \in SeqsUpTo(RowStrings, MaxStored)
  /\ first_row \in 1..(MaxStored + 1)
  /\ chunk_size \in 1..MaxChunk
  /\ reader_cursor = <<>>
  /\ data_contents = <<>>
  /\ InferIdle /\ RepoInit /\ WorkInit /\ BatchIdle /\ ReadIdle /\ WriterIdle
  /\ TokenInit

\* read(start_row=first_row, chunk_size=chunk_size)
ReadFrom ==
  /\ data_contents = <<>>
  /\ \E res \in {read(initialize_cursor(dataset_rows, first_row), chunk_size)} :
        /\ reader_cursor' = res.cursor
        /\ data_contents' = <<res.data_contents>>
  /\ UNCHANGED <<dataset_rows, first_row, chunk_size, inferVars, repoVars, workVars,
                 batchVars, readVars, writerVars, tokenVars>>

\* read(start_row=None, chunk_size=chunk_size), also after the end was reached
ReadNext ==
  /\ data_contents # <<>>
  /\ Len(data_contents) < Len(dataset_rows) + 2
  /\ \E res \in {read(reader_cursor, chunk_size)} :
        /\ reader_cursor' = res.cursor
        /\ data_contents' = Append(data_contents, res.data_contents)
  /\ UNCHANGED <<dataset_rows, first_row, chunk_size, inferVars, repoVars, workVars,
                 batchVars, readVars, writerVars, tokenVars>>

NextReader == ReadFrom \/ ReadNext

SpecReader == InitReader /\ [][NextReader]_vars

(***************************************************************************)
(* SpecToken: schedule_expiry_event and cancel_timer called by request     *)
(* threads, and the threads of the timers, for one user_id.  A statement   *)
(* that reads or writes the timers dict, or a timer, is one step.          *)
(***************************************************************************)
\* threading.Timer.cancel(): a timer still waiting will not run its function;
\* one whose wait is over is not stopped
cancel(phase, t) ==
  IF t # 0 /\ phase[t] = "waiting" THEN [phase EXCEPT ![t] = "cancelled"] ELSE phase

\* the token module touches nothing else
TokenFrame ==
  UNCHANGED <<inferVars, repoVars, workVars, batchVars, readVars, writerVars,
              readerVars>>

\* line 24: old_timer = timers.get(user_id)
ScheduleGet(c) ==
  /\ caller_pc[c] = "idle"
  /\ created < MaxTimers
  /\ old_timer' = [old_timer EXCEPT ![c] = timers]
  /\ caller_pc' = [caller_pc EXCEPT ![c] = "start"]
  /\ UNCHANGED <<timer_phase, timers, created, new_timer, cancels, signals>>
  /\ TokenFrame

\* lines 27-28: new_timer = threading.Timer(...); new_timer.start()
ScheduleStart(c) ==
  /\ caller_pc[c] = "start"
  /\ created < MaxTimers
  /\ created' = created + 1
  /\ new_timer' = [new_timer EXCEPT ![c] = created + 1]
  /\ timer_phase' = [timer_phase EXCEPT ![created + 1] = "waiting"]
  /\ caller_pc' = [caller_pc EXCEPT ![c] = "store"]
  /\ UNCHANGED <<timers, old_timer, cancels, signals>>
  /\ TokenFrame

\* line 31: timers[user_id] = new_timer
ScheduleStore(c) ==
  /\ caller_pc[c] = "store"
  /\ timers' = new_timer[c]
  /\ caller_pc' = [caller_pc EXCEPT ![c] = "cancel_old"]
  /\ UNCHANGED <<timer_phase, created, old_timer, new_timer, cancels, signals>>
  /\ TokenFrame

\* lines 34-36: if old_timer: old_timer.cancel()
ScheduleCancelOld(c) ==
  /\ caller_pc[c] = "cancel_old"
  /\ timer_phase' = cancel(timer_phase, old_timer[c])
  /\ caller_pc' = [caller_pc EXCEPT ![c] = "idle"]
  /\ old_timer' = [old_timer EXCEPT ![c] = 0]
  /\ new_timer' = [new_timer EXCEPT ![c] = 0]
  /\ UNCHANGED <<timers, created, cancels, signals>>
  /\ TokenFrame

\* cancel_timer, line 51: timer = timers.pop(user_id, None)
CancelPop(c) ==
  /\ caller_pc[c] = "idle"
  /\ cancels < MaxCancels
  /\ cancels' = cancels + 1
  /\ old_timer' = [old_timer EXCEPT ![c] = timers]
  /\ timers' = 0
  /\ caller_pc' = [caller_pc EXCEPT ![c] = "cancel"]
  /\ UNCHANGED <<timer_phase, created, new_timer, signals>>
  /\ TokenFrame

\* cancel_timer, lines 52-54: if timer: timer.cancel()
CancelTimer(c) ==
  /\ caller_pc[c] = "cancel"
  /\ timer_phase' = cancel(timer_phase, old_timer[c])
  /\ caller_pc' = [caller_pc EXCEPT ![c] = "idle"]
  /\ old_timer' = [old_timer EXCEPT ![c] = 0]
  /\ UNCHANGED <<timers, created, new_timer, cancels, signals>>
  /\ TokenFrame

\* the wait of timer t is over and it was not cancelled: its thread calls
\* trigger_expiry_event.  The wait (the lifetime of a token) outlasts the
\* call that started the timer.
Expire(t) ==
  /\ timer_phase[t] = "waiting"
  /\ \A c \in Callers : new_timer[c] # t
  /\ timer_phase' = [timer_phase EXCEPT ![t] = "firing"]
  /\ UNCHANGED <<timers, created, caller_pc, old_timer, new_timer, cancels, signals>>
  /\ TokenFrame

\* trigger_expiry_event, line 44: session_expired.send
Send(t) ==
  /\ timer_phase[t] = "firing"
  /\ timer_phase' = [timer_phase EXCEPT ![t] = "sent"]
  /\ signals' = Append(signals, t)
  /\ UNCHANGED <<timers, created, caller_pc, old_timer, new_timer, cancels>>
  /\ TokenFrame

\* trigger_expiry_event, line 47: timers.pop(user_id, None)
PopEntry(t) ==
  /\ timer_phase[t] = "sent"
  /\ timer_phase' = [timer_phase EXCEPT ![t] = "done"]
  /\ timers' = 0
  /\ UNCHANGED <<created, caller_pc, old_timer, new_timer, cancels, signals>>
  /\ TokenFrame

InitToken ==
  /\ TokenInit
  /\ InferIdle /\ RepoInit /\ WorkInit /\ BatchIdle
  /\ ReadIdle /\ WriterIdle /\ ReaderIdle

NextToken ==
  \/ \E c \in Callers :
        \/ ScheduleGet(c) \/ ScheduleStart(c) \/ ScheduleStore(c)
        \/ ScheduleCancelOld(c) \/ CancelPop(c) \/ CancelTimer(c)
  \/ \E t \in 1..MaxTimers : Expire(t) \/ Send(t) \/ PopEntry(t)

SpecToken == InitToken /\ [][NextToken]_vars

(***************************************************************************)
(* Properties                                                              *)
(***************************************************************************)
\* the sum of a function's values over the set S
RECURSIVE SumFn(_, _)
SumFn(f, S) ==
  IF S = {} THEN 0
  ELSE LET v == CHOOSE x \in S : TRUE
       IN  f[v] + SumFn(f, S \ {v})

\* the tolerance argument: None, a number, or a dict from type to number
NoTolerance == [kind |-> "None"]

Number(n) == [kind |-> "number", value |-> n]

Dict(d) == [kind |-> "dict", value |-> d]

\* get_tolerance: tolerance.get(dtype, 0) for a dict, else "tolerance or 0"
get_tolerance(tolerance, dtype) ==
  IF tolerance.kind = "dict" THEN Get(tolerance.value, dtype, 0)
  ELSE IF tolerance.kind = "number" THEN tolerance.value
  ELSE 0

RECURSIVE candidates_loop(_, _, _, _)
\* lines 90-92 without "or dtype == InferenceType.OBJECT"
candidates_loop_no_object(i, type_stats, tolerance, candidates) ==
  IF i > Len(inference_types_all) THEN candidates
  ELSE LET dtype == inference_types_all[i]
       IN  candidates_loop(i + 1, type_stats, tolerance,
             IF dtype \in DOMAIN type_stats
                /\ type_stats[dtype] <= get_tolerance(tolerance, dtype)
             THEN candidates \cup {dtype}
             ELSE candidates)

\* lines 89-92: the loop over inference_types_all
candidates_loop(i, type_stats, tolerance, candidates) ==
  IF i > Len(inference_types_all) THEN candidates
  ELSE LET dtype == inference_types_all[i]
       IN  candidates_loop(i + 1, type_stats, tolerance,
             IF \/ /\ dtype \in DOMAIN type_stats
                   /\ type_stats[dtype] <= get_tolerance(tolerance, dtype)
                \/ dtype = "object"
             THEN candidates \cup {dtype}
             ELSE candidates)

\* SeriesTypeInference.candidates_from_type_stats
candidates_from_type_stats(type_stats, tolerance) ==
  candidates_loop(1, type_stats, tolerance, {})

\* the tolerances tried: None, every number up to MaxTotal, and the dicts
\* that give a number to some of ToleranceKeys
ToleranceKeys == {"bool", "category"}

Tolerances ==
  {NoTolerance}
    \cup {Number(n) : n \in 0..MaxTotal}
    \cup {Dict(d) : d \in UNION {[K -> 0..MaxTotal] : K \in SUBSET ToleranceKeys}}

\* the failure counters gather_type_stats leaves when it is given rows in
\* one call on empty type_stats (lines 31-55; the Category key apart)
counters_of(rows) ==
  LET series == dropna(csv_to_dataframe(rows))
  IN  non_numeric_stats(1, series, numeric_cascade(1, series, EmptyDict))

\* the non-NA cells fed so far whose conversion to inftype is null
conversion_failures(inftype) ==
  SumFn([v \in Cells |->
           IF ~isna(custom_na_values(v)) /\ isna(convert_type(v, inftype))
           THEN seen[v] ELSE 0],
        Cells)

\* (column_types, category_values, position) a run ends with
Outcome(run) ==
  <<run.writer.schema.column_types, run.writer.schema.category_values,
    run.writer.schema.position>>

\* C1: at most one do_work invocation on the same (user, dataset) is past
\* dataset_lock with lock_acquired = True at any time.
C1_AtMostOneActive ==
  \A w \in Workers : \A o \in Workers :
     (lock_acquired[w] /\ lock_acquired[o]) => w = o

\* C2: once the persisted schema has status Complete, no step of any
\* do_work invocation changes the persisted schema in any field.
C2_CompleteIsFinal ==
  [][persisted.status = "complete" => persisted' = persisted]_vars

\* C3: every persisted schema's counters are exactly those of rows
\* 1..position-1 of the dataset, each row counted once.
C3_CountersMatchRows ==
  /\ persisted.position - 1 <= Len(table)
  /\ \A col \in Range(columns) :
       \A dtype \in DOMAIN persisted.column_types[col] \ {"category"} :
          persisted.column_types[col][dtype] =
            counters_of(SubSeq(table, 1, persisted.position - 1))[dtype]

\* C4: schema.position equals the number of rows fed to the process calls
\* on the schema so far, plus 1.
C4_PositionIntegrity == wr.schema.position = TotalFed + 1

\* C5 as stated: for every column and every type, an absent key counting as
\* infinity, the counter after a process call is >= the counter before it.
C5_MonotoneAbsentInfinite ==
  [][\A col \in Range(columns) : \A dtype \in InferenceType :
        \/ dtype \notin DOMAIN wr'.schema.column_types[col]
        \/ /\ dtype \in DOMAIN wr.schema.column_types[col]
           /\ wr'.schema.column_types[col][dtype] >= wr.schema.column_types[col][dtype]
    ]_vars

\* C5 amended: for every column and every type other than Category, an
\* absent key counting as 0, the counter after a process call is >= the
\* counter before it (the Category key is removed and decided again by
\* every call).
C5_Monotone ==
  [][\A col \in Range(columns) : \A dtype \in InferenceType \ {"category"} :
        Get(wr'.schema.column_types[col], dtype, 0)
          >= Get(wr.schema.column_types[col], dtype, 0)
    ]_vars

\* C5 witness: a counter larger than any single batch, so that a later call
\* added to what earlier calls had counted
C5_CounterGrewOverCalls ==
  \E col \in Range(columns) : \E dtype \in InferenceType \ {"category"} :
     Get(wr.schema.column_types[col], dtype, 0) > MaxBatch

\* C6: when finalize is called the upload is ready and the dataset holds no
\* row with id >= schema.position.
C6_FinalizeAtEnd ==
  [][\A w \in Workers :
        (pc[w] = "no_data" /\ pc'[w] = "release")
          => /\ upload_status = "Ready"
             /\ Len(table) < inference[w].schema.position
    ]_vars

\* C7: for every tolerance and every candidate type of the column (Object,
\* which convert_type does not convert, apart), converting the values fed
\* so far to that type fails on at most tolerance non-NA values.
C7_CandidatesConvertible ==
  \A col \in Range(columns) : \A tolerance \in 0..MaxTotal :
     \A dtype \in candidates_from_type_stats(wr.schema.column_types[col],
                                                 Number(tolerance)) \ {"object"} :
        conversion_failures(dtype) <= tolerance

\* C8: process(A); process(B) ends with the same (column_types,
\* category_values, position) as process(A ++ B) from the same schema
\* (compared when no call raised).
C8_BatchingEquivalence ==
  (split.calls = 2 /\ joined.calls = 1 /\ ~split.raised /\ ~joined.raised)
    => Outcome(split) = Outcome(joined)

\* C9: process(A); process(B) and process(B); process(A) end with the same
\* column_types, Category key included (compared when no call raised).
C9_OrderIndependence ==
  (split.calls = 2 /\ swapped.calls = 2 /\ ~split.raised /\ ~swapped.raised)
    => split.writer.schema.column_types = swapped.writer.schema.column_types

\* C10: a process call with a batch of zero rows raises nothing and leaves
\* column_types, category_values and position as they were.
C10_EmptyBatchNoOp ==
  [][Process(<<>>) => (~raised' /\ wr'.schema = wr.schema)]_vars

\* C11: once a process call has seen values whose addition would make
\* category_values exceed max_categories (here the first batch, on the
\* empty set), no later process call inserts Category into column_types.
C11_DisqualifiedForGood ==
  \A col \in Range(columns) :
     ( /\ split.calls = 2
       /\ ~split.raised
       /\ Cardinality(unique(dropna(csv_to_dataframe(batchA))))
            > split.writer.schema.max_categories )
       => "category" \notin DOMAIN split.writer.schema.column_types[col]

\* C12: with U the unique non-NA values of the batch joined with the
\* category_values before the call, a process call that returns leaves the
\* Category key in column_types exactly when |U| <= max_categories and
\* |unique(batch)| / rows_processed_after <= 0.5, and then category_values
\* is U; values already in category_values do not count against the cap.
C12_CategoryGate ==
  [][\A batch \in Batches : \A col \in Range(columns) :
        (Process(batch) /\ ~raised') =>
          LET S == dropna(csv_to_dataframe(batch))
              U == unique(S) \cup Get(wr.schema.category_values, col, {})
              rows_processed_after == wr.rows_processed + Len(S)
              gate == /\ Cardinality(U) <= wr.schema.max_categories
                      /\ 2 * Cardinality(unique(S)) <= rows_processed_after
          IN  /\ ("category" \in DOMAIN wr'.schema.column_types[col]) <=> gate
              /\ gate => wr'.schema.category_values[col] = U
    ]_vars

\* the distinct non-NA cells fed to the process calls that returned
distinct_seen == {v \in Cells : seen[v] > 0 /\ ~isna(custom_na_values(v))}

\* C13: for every column, category_values holds at most max_categories
\* values in every state reached by process calls from an empty schema.
C13_CategoryValuesBounded ==
  \A col \in DOMAIN wr.schema.category_values :
     Cardinality(wr.schema.category_values[col]) <= wr.schema.max_categories

\* C13 witness: the set is full and the calls have fed more distinct values
\* than max_categories
C13_CapReached ==
  \E col \in DOMAIN wr.schema.category_values :
     /\ Cardinality(wr.schema.category_values[col]) = wr.schema.max_categories
     /\ Cardinality(distinct_seen) > wr.schema.max_categories

\* C14: candidates_from_type_stats(counters, tolerance) is exactly the set
\* of types T with (T a key of counters and counters[T] <= the tolerance
\* for T, a missing tolerance being 0) or T = Object; Object is always in it.
C14_CandidatesExact ==
  \A col \in Range(columns) : \A tolerance \in Tolerances :
     LET counters == wr.schema.column_types[col]
         allowed(T) == CASE tolerance.kind = "None" -> 0
                         [] tolerance.kind = "number" -> tolerance.value
                         [] tolerance.kind = "dict" ->
                              IF T \in DOMAIN tolerance.value
                              THEN tolerance.value[T] ELSE 0
         result == candidates_from_type_stats(counters, tolerance)
     IN  /\ result = {T \in InferenceType :
                        \/ T \in DOMAIN counters /\ counters[T] <= allowed(T)
                        \/ T = "object"}
         /\ "object" \in result

\* C14 witness: counters under which Bool is a candidate only with the
\* tolerance a dict gives it, and Int8 already with none
C14_ToleranceDecides ==
  \E col \in Range(columns) :
     LET counters == wr.schema.column_types[col]
     IN  /\ "bool" \notin candidates_from_type_stats(counters, NoTolerance)
         /\ "bool" \notin candidates_from_type_stats(counters, Number(0))
         /\ "bool" \in candidates_from_type_stats(counters, Dict([k \in {"bool"} |-> 1]))
         /\ "int8" \in candidates_from_type_stats(counters, NoTolerance)

\* get_preferred_type: preferred_types_order and
\* "next((dtype for dtype in preferred_types_order if dtype in candidate_types), None) or 'object'"
preferred_types_order ==
  <<"bool", "int8", "int16", "int32", "int64", "float32", "float64", "complex",
    "timedelta[ns]", "datetime64[ns]", "category", "object">>

get_preferred_type(candidate_types) ==
  LET present == SelectSeq(preferred_types_order, LAMBDA dtype : dtype \in candidate_types)
  IN  IF present # <<>> THEN present[1] ELSE "object"

\* C15: for every candidate set candidates_from_type_stats produces,
\* get_preferred_type returns the first type of the order Bool, Int8, Int16,
\* Int32, Int64, Float32, Float64, Complex, Timedelta, DatetimeMDY,
\* DatetimeYMD, DatetimeDMY, Category, Object that is in the set; Object is
\* returned only when no other type is a candidate.
C15_PreferredIsFirstInOrder ==
  \A col \in Range(columns) : \A tolerance \in Tolerances :
     LET order == <<"bool", "int8", "int16", "int32", "int64", "float32",
                    "float64", "complex", "timedelta", "datetime", "datetime_y",
                    "datetime_d", "category", "object">>
         candidates == candidates_from_type_stats(wr.schema.column_types[col], tolerance)
         first == SelectSeq(order, LAMBDA T : T \in candidates)[1]
     IN  /\ get_preferred_type(candidates) = first
         /\ get_preferred_type(candidates) = "object" => candidates = {"object"}

\* C16: the back-off is capped at 60: no sleep performed by do_work is
\* longer than 60 seconds (back_off is the argument of time.sleep).
C16_SleepWithinCap ==
  \A w \in Workers : pc[w] = "sleep" => back_off[w] <= BackoffCap

\* C17: when the loop is left because the back-off reached the cap, do_work
\* returns without a schema write, and the persisted schema has status
\* Incomplete and the position reached by the last processed chunk.
C17_CapExitLeavesIncomplete ==
  [][\A w \in Workers :
        (pc[w] = "sleep" /\ pc'[w] = "release")
          => /\ persisted' = persisted
             /\ persisted.status = "incomplete"
             /\ persisted.position = inference[w].schema.position
    ]_vars

\* C18: for a single dataset the position of the persisted schema never
\* decreases from one schema write to the next (the write of a supplied
\* schema, the write after each chunk and finalize), within a run and
\* across successive runs.
C18_PositionNeverDecreases ==
  [][persisted'.position >= persisted.position]_vars

\* the frame of the chunk worker w holds, as process hands it to
\* infer_data_types
chunk_frame(w) == [c \in Range(columns) |-> csv_to_dataframe(dataset[w])]

\* C19: persistence cadence.  The step of the driver that processes a chunk
\* without raising writes the schema that reflects the chunk (the counters
\* and category values of the inference after the chunk, the position one
\* past the rows it has processed) and leads straight to the next read;
\* reading a chunk writes nothing.  So there is exactly one write of the
\* driver between two consecutive chunk reads, made before the second.
C19_WriteAfterEveryChunk ==
  [][\A w \in Workers :
       /\ (pc[w] = "process" /\ pc'[w] # "process"
             /\ ~infer_data_types(inference[w], chunk_frame(w), Len(dataset[w])).raised)
            => /\ pc'[w] = "read"
               /\ persisted' = inference'[w].schema
               /\ persisted'.position
                    = inference[w].rows_processed + Len(dataset[w]) + 1
               /\ persisted'.column_types
                    = infer_data_types(inference[w], chunk_frame(w),
                                       Len(dataset[w])).writer.schema.column_types
       /\ (pc[w] = "read" /\ pc'[w] # "read") => persisted' = persisted]_vars

\* the driver is about to read a third chunk, the schema of the second
\* chunk being the one stored
C19_TwoChunksWritten ==
  /\ pc["w1"] = "read"
  /\ start_row["w1"] = NoRow
  /\ inference["w1"].rows_processed = 2 * ChunkSize
  /\ persisted = inference["w1"].schema
  /\ persisted.position = 2 * ChunkSize + 1

\* the places of the loop of do_work where no chunk is being processed
chunk_boundary == {"status", "read", "no_data", "sleep"}

\* process run to its end on the chunk worker w holds
whole_chunk(w) ==
  from_inference(infer_data_types(inference[w], chunk_frame(w), Len(dataset[w])).writer).schema

\* C20: no partial-chunk schema state is persisted.  A step in which
\* inference of the chunk raises, and a step that cancels the driver, leave
\* the persisted schema as it was.  Every step that changes the persisted
\* schema writes a supplied schema, the schema after the whole chunk just
\* read, or the schema in memory at a chunk boundary with status complete;
\* and the schema a driver holds at a chunk boundary is changed only by
\* loading it or by a chunk processed to its end.
C20_NoPartialChunkPersisted ==
  [][\A w \in Workers :
       /\ (pc[w] = "process" /\ pc'[w] # "process"
             /\ infer_data_types(inference[w], chunk_frame(w), Len(dataset[w])).raised)
            => persisted' = persisted
       /\ (pc[w] \in chunk_boundary \cup {"process"} /\ pc'[w] \in {"idle", "release"}
             /\ ~(pc[w] = "no_data" /\ UploadComplete(w)))
            => persisted' = persisted
       /\ (pc'[w] # pc[w] /\ persisted' # persisted)
            => \/ pc[w] = "schema" /\ persisted' = schema_str[w]
               \/ /\ pc[w] = "process"
                  /\ dataset[w] # <<>>
                  /\ ~infer_data_types(inference[w], chunk_frame(w), Len(dataset[w])).raised
                  /\ persisted' = whole_chunk(w)
               \/ /\ pc[w] = "no_data"
                  /\ persisted' = [inference[w].schema EXCEPT !.status = "complete"]
       /\ (pc'[w] \in chunk_boundary /\ inference'[w].schema # inference[w].schema)
            => \/ pc[w] = "schema"
               \/ /\ pc[w] = "process"
                  /\ ~infer_data_types(inference[w], chunk_frame(w), Len(dataset[w])).raised
                  /\ inference'[w].schema = whole_chunk(w)]_vars

\* the driver has stopped part-way through a chunk that follows a committed
\* one: the counters in memory have moved, the persisted schema has not
C20_StoppedMidChunk ==
  /\ pc["w1"] = "release"
  /\ persisted.position = ChunkSize + 1
  /\ persisted.status = "incomplete"
  /\ inference["w1"].schema.column_types # persisted.column_types

\* C21: ConcurrentRun.  A do_work invocation that finds the lock key set
\* returns in that step without raising and changes nothing: the persisted
\* schema (even when it was given a schema to write), the dataset, the
\* upload status and the lock key stay as they were, and it has read no
\* chunk.
C21_MissChangesNothing ==
  [][\A w \in Workers :
       (pc[w] = "lock_get" /\ cache /\ pc'[w] # pc[w])
         => /\ pc'[w] = "idle"
            /\ UNCHANGED <<cache, persisted, upload_status, table, sessions>>
            /\ lock_acquired'[w] = FALSE
            /\ cursor'[w] = <<>> /\ dataset'[w] = <<>>]_vars

\* an invocation that was given a schema other than the stored one finds
\* the key set by the invocation that is processing the dataset
C21_MissWithSchema ==
  /\ pc["w2"] = "lock_get"
  /\ cache
  /\ lock_acquired["w1"] /\ inference["w1"].rows_processed > 0
  /\ schema_str["w2"] # None /\ schema_str["w2"] # persisted

\* the exceptions mapping of row r holds column c with the raw value
has_entry(r, c) ==
  /\ ~exceptions.is_none
  /\ c \in DOMAIN exceptions.rows[r]
  /\ exceptions.rows[r][c] = csv_rows[r][c]

\* C22: on the read path, for every returned row r and column c, the
\* exceptions mapping of row r holds c -> raw value exactly when the raw cell
\* is not NA and converting it to the resolved type of c gives null (a cell
\* of an object column is returned as it is and is never null); an entry of
\* an earlier column is still there after the later columns were converted.
C22_ExceptionsIffFailed ==
  loaded =>
    \A r \in 1..Len(csv_rows) : \A c \in Range(column_names) :
      has_entry(r, c)
        <=> /\ ~isna(custom_na_values(csv_rows[r][c]))
            /\ preferred_types[c] # "object"
            /\ isna(convert_type(csv_rows[r][c], preferred_types[c]))

\* a row of which both cells failed their conversion has both entries
C22_TwoEntriesInARow ==
  /\ loaded
  /\ ~exceptions.is_none
  /\ \E r \in 1..Len(csv_rows) : DOMAIN exceptions.rows[r] = Range(column_names)

\* C23: the read path returns exactly one exceptions mapping per returned
\* row, an empty one for a row without conversion failures, whatever the
\* resolved types of the columns are, all of them object included.
C23_OneMappingPerRow ==
  loaded =>
    /\ ~exceptions.is_none
    /\ Len(exceptions.rows) = Len(csv_rows)
    /\ \A r \in 1..Len(csv_rows) :
         (\A c \in Range(column_names) : ~has_entry(r, c))
           => exceptions.rows[r] = EmptyDict

\* the lines of a text: what stands between two newlines, and what follows
\* the last newline when that is not empty
RECURSIVE lines_of(_, _, _, _)
lines_of(data, i, line, lines) ==
  IF i > Len(data)
  THEN IF line = <<>> THEN lines ELSE Append(lines, line)
  ELSE IF data[i] = "\n"
       THEN lines_of(data, i + 1, <<>>, Append(lines, line))
       ELSE lines_of(data, i + 1, Append(line, data[i]), lines)

\* C24: the dataset writer stores rows independently of chunking.  Whatever
\* way the text was split into write calls, once the writer is released the
\* stored rows, by id, are the lines of the text in order: none split, lost
\* or duplicated, the last line stored also when no newline ends it.
C24_StoredRowsAreTheLines ==
  released => stored = lines_of(text, 1, <<>>, <<>>)

\* data.split('\n'): the rows of a returned chunk
RECURSIVE split_rows(_, _, _, _)
split_rows(data, i, row, rows) ==
  IF i > Len(data) THEN Append(rows, row)
  ELSE IF data[i] = "\n"
       THEN split_rows(data, i + 1, <<>>, Append(rows, row))
       ELSE split_rows(data, i + 1, Append(row, data[i]), rows)

\* the rows of the first n results, in the order they were returned
RECURSIVE rows_returned(_)
rows_returned(n) ==
  IF n = 0 THEN <<>>
  ELSE rows_returned(n - 1)
         \o (IF data_contents[n].is_none THEN <<>>
             ELSE split_rows(data_contents[n].data, 1, <<>>, <<>>))

\* C25: chunked reading partitions the dataset.  The reads that follow
\* read(start_row=p, chunk_size=k) return the rows p..n in id order, each
\* once, in consecutive chunks of one to k rows, and a read returns None
\* exactly when no row is left, the first read with p > n included.
C25_ReadsPartitionTheRows ==
  LET expected == initialize_cursor(dataset_rows, first_row)
  IN  \A i \in 1..Len(data_contents) :
        LET before == rows_returned(i - 1)
            chunk == IF data_contents[i].is_none THEN <<>>
                     ELSE split_rows(data_contents[i].data, 1, <<>>, <<>>)
        IN  /\ data_contents[i].is_none <=> Len(before) = Len(expected)
            /\ Len(chunk) <= chunk_size
            /\ Len(before) + Len(chunk) <= Len(expected)
            /\ before \o chunk = SubSeq(expected, 1, Len(before) + Len(chunk))

\* two rows were returned in two chunks and the read after them found none;
\* the first row of the table was not asked for
C25_TwoChunksThenNone ==
  /\ Len(dataset_rows) = 3 /\ first_row = 2 /\ chunk_size = 1
  /\ Len(data_contents) = 3
  /\ ~data_contents[1].is_none /\ ~data_contents[2].is_none
  /\ data_contents[3].is_none

\* no request is inside schedule_expiry_event or cancel_timer and no timer
\* is inside trigger_expiry_event
TokenQuiet ==
  /\ \A c \in Callers : caller_pc[c] = "idle"
  /\ \A t \in 1..MaxTimers : timer_phase[t] \notin {"firing", "sent"}

\* timers[user_id] is the one timer of the user that is waiting, or absent
\* when none is
TimersRefersToLive ==
  /\ timers # 0 => timer_phase[timers] = "waiting"
  /\ \A t \in 1..MaxTimers : timer_phase[t] = "waiting" => timers = t

\* C26: under any interleaving of schedule_expiry_event, cancel_timer and
\* timer firings for a user, session_expired is sent only by the user's most
\* recently scheduled timer, while timers[user_id] still refers to it (it was
\* neither superseded by a refresh nor taken out by cancel_timer); and
\* whenever no call is under way timers[user_id] refers to the live timer or
\* is absent when there is none.
C26_OnlyTheLiveTimerSignals ==
  [][/\ \A t \in 1..MaxTimers :
          (timer_phase[t] = "firing" /\ timer_phase'[t] = "sent")
            => (t = created /\ timers = t)
     /\ TokenQuiet' => TimersRefersToLive']_vars

\* C27: a do_work that found the upload Ready when it started on an
\* incomplete schema, and met no error, ends by finalizing: the persisted
\* schema is then complete and its position is the number of rows of the
\* dataset plus 1.
C27_ReadyUploadFullyProcessed ==
  [][\A w \in Workers :
       (pc[w] = "no_data" /\ upload_complete[w] = "true" /\ pc'[w] = "release")
         => /\ persisted'.status = "complete"
            /\ persisted'.position = Len(table) + 1]_vars

\* the failure counter of the i-th numeric type for a column, 0 before the
\* first process call has created it
numeric_counter(col, i) == Get(wr.schema.column_types[col], inference_types_numeric[i], 0)

\* the non-NA cells handed to the process calls that returned
non_na_seen == SumFn([v \in Cells |-> IF isna(custom_na_values(v)) THEN 0 ELSE seen[v]], Cells)

\* C28: numeric cascade invariant.  In every state reached by process calls
\* from an empty schema the failure counters of each column do not increase
\* along the numeric order, bool >= int8 >= int16 >= int32 >= int64 >=
\* float32 >= float64 >= complex, and none exceeds the number of non-NA
\* values processed for the column.
C28_CascadeNonIncreasing ==
  \A col \in Range(columns) :
    /\ \A i \in 1..(Len(inference_types_numeric) - 1) :
         numeric_counter(col, i) >= numeric_counter(col, i + 1)
    /\ \A i \in 1..Len(inference_types_numeric) :
         numeric_counter(col, i) <= non_na_seen

\* three values were processed: all three failed bool, two of them every
\* integer type, one of them every numeric type
C28_CountersStepDown ==
  /\ numeric_counter("col_1", 1) = 3
  /\ numeric_counter("col_1", 2) = 2
  /\ numeric_counter("col_1", 5) = 2
  /\ numeric_counter("col_1", 8) = 1

\* C29: lock release.  An invocation that acquired the lock leaves do_work,
\* by return or by an exception, only through the end of the with block of
\* dataset_lock, and that step deletes the lock key, so that a later
\* invocation finds none; an invocation that found the key set returns
\* without deleting it.
C29_LockReleasedOnExit ==
  [][\A w \in Workers :
       (pc[w] # "idle" /\ pc'[w] = "idle")
         => \/ pc[w] = "release" /\ lock_acquired[w] /\ cache' = FALSE
            \/ pc[w] = "lock_get" /\ ~lock_acquired[w] /\ cache /\ cache' = cache]_vars

\* the first invocation finalized the schema and returned; the one started
\* after it has acquired the lock
C29_LaterInvocationAcquired ==
  /\ runs = 2
  /\ pc["w2"] = "idle"
  /\ pc["w1"] = "schema" /\ lock_acquired["w1"] /\ cache
  /\ persisted.status = "complete"

\* C30: the driver run for ForUser finalizes the schema (the "no data" step
\* that ends in finalize) only when ForUser's own upload of the dataset is
\* complete: upload_status of the dataset is Ready or ForUser's FileSession
\* is Ready.  Another user's Ready FileSession of the same dataset name
\* never makes it finalize.
C30_FinalizedOnOwnUploadOnly ==
  [][\A w \in Workers :
       (pc[w] = "no_data" /\ pc'[w] = "release" /\ persisted'.status = "complete")
         => (upload_status = "Ready" \/ sessions[ForUser] = "Ready")]_vars

====
